---- MODULE Spec2Model ----
(***************************************************************************)
(* Two components of the repository:                                       *)
(*   - ReceptiveField (models/segtran_modified/code/receptivefield/base.py)*)
(*     one instance, its compute() taken step by step (build, three        *)
(*     gradient probes, write), its result properties and plot_rf_grid;    *)
(*     specification Spec.                                                 *)
(*   - load_model_state (app/model_controller/segtran_inference.py):       *)
(*     one call on a network, runtime args and checkpoint drawn in the     *)
(*     initial state; specification SpecLoad.                              *)
(* Optional values (Python None) are sequences of length 0 or 1.           *)
(* Floating-point halves (w / 2) are kept exact by storing the offset of a *)
(* receptive field in half units (twice its value).                        *)
(***************************************************************************)
EXTENDS Integers, Sequences, FiniteSets, TLC

VARIABLES
    \* ---- ReceptiveField instance (base.py:24-29)
    _built,              \* self._built
    _gradient_function,  \* self._gradient_function (None or the built function)
    _input_shape,        \* self._input_shape      (option)
    _output_shapes,      \* self._output_shapes    (option of a list)
    _rf_params,          \* self._rf_params        (option of a list)
    \* ---- the running compute() call
    pc,                  \* position inside compute, "idle" outside it
    rfs_at00,            \* local of compute
    rfs_at11,            \* local of compute
    rfs_at_point00,      \* local of compute
    \* ---- what the caller observes
    calls,               \* abstract-method invocations of the current/last operation
    lastOp,              \* the operation called last
    op_args,             \* its arguments
    result,              \* its outcome: [exc, value]
    replaced,            \* the last completed compute overwrote earlier _rf_params
    \* ---- load_model_state (segtran_inference.py:22-67)
    args,                \* runtime args (Namespace), key -> value or Absent
    checkpoint,          \* what torch.load returns
    net_weights,         \* the network's state: parameter name -> value
    load_pc,             \* "start" before the call, "done" after it
    load_outcome,        \* how the call ended
    load_called,         \* net.load_state_dict was called
    compared             \* the configuration comparison loop was entered

instance == <<_built, _gradient_function, _input_shape, _output_shapes, _rf_params>>
locals == <<rfs_at00, rfs_at11, rfs_at_point00>>
rfvars == <<instance, pc, locals, calls, lastOp, op_args, result, replaced>>
loadvars == <<args, checkpoint, net_weights, load_pc, load_outcome, load_called, compared>>
vars == <<rfvars, loadvars>>

\* ---------------------------------------------------------------- bounds
MaxFeatureMaps == 2
MaxGrid == 3
NumResponses == 2
MaxOffset == 1
MaxCpArgs == 2

\* ------------------------------------------------------- option values
None == << >>
Some(v) == <<v>>
IsNone(o) == o = << >>
Get(o) == o[1]

\* ------------------------------------------------- receptivefield.types
GridPoint(x, y) == [x |-> x, y |-> y]
Size(w, h) == [w |-> w, h |-> h]
GridShape(w, h) == [w |-> w, h |-> h]
ImageShape(w, h, c) == [w |-> w, h |-> h, c |-> c]
ReceptiveFieldRect(x, y, w, h) == [x |-> x, y |-> y, w |-> w, h |-> h]
ReceptiveFieldDescription(offset, stride, size) ==
    [offset2 |-> offset, stride |-> stride, size |-> size]
FeatureMapDescription(size, rf) == [size |-> size, rf |-> rf]

\* ------------------------------------------------------------ outcomes
NoExc == ""
NotComputed == "Receptive field not computed. Run compute function."
TypeError == "TypeError"
AttributeError == "AttributeError"
IndexError == "IndexError"
GradientError == "raised by the gradient function"
Raised(e) == [exc |-> e, value |-> None]
Returned(v) == [exc |-> NoExc, value |-> Some(v)]
Pending == [exc |-> NoExc, value |-> None]

\* ------------------------------------------ what _prepare_gradient_func
\* may return: the feature maps of a network, each grid half the previous
\* one (rounded up), the first one of any size up to MaxGrid x MaxGrid.
RECURSIVE Pyramid(_, _)
Pyramid(s, n) ==
    IF n = 0 THEN << >>
    ELSE <<s>> \o Pyramid(GridShape((s.w + 1) \div 2, (s.h + 1) \div 2), n - 1)

OutputShapeLists ==
    { Pyramid(GridShape(w, h), n) :
        w \in 1..MaxGrid, h \in 1..MaxGrid, n \in 1..MaxFeatureMaps }

\* The input image of such a network: eight pixels per cell of the first grid.
InputShapeFor(shapes) == ImageShape(8 * shapes[1].w, 8 * shapes[1].h, 3)

\* What one gradient probe followed by estimate_rf_from_gradients may yield
\* for n feature maps: one rectangle per feature map. The gradient function
\* is a black box; r picks one of NumResponses behaviours, all coordinates
\* of which differ between feature maps and between behaviours.
RectOf(r, i) == ReceptiveFieldRect(4 * r + i, 3 * r + 2 * i, 2 * r + i + 1, r + 3 * i)
GradientResponses(n) == { [i \in 1..n |-> RectOf(r, i)] : r \in 1..NumResponses }

\* Offsets a caller may pass to _get_gradient_activation_at_map_center.
CenterOffsetLists(n) ==
    { [i \in 1..n |-> GridPoint(ox + (i - 1), oy - (i - 1))] :
        ox \in (-MaxOffset)..MaxOffset, oy \in (-MaxOffset)..MaxOffset }

\* ------------------------------------------------------------- _check
_check_never == NoExc

_check == IF ~_built THEN NotComputed ELSE NoExc

\* ----------------------------------------------------- result properties
\* zip(self._output_shapes, self._rf_params): stops at the shorter list.
Min(a, b) == IF a < b THEN a ELSE b

feature_maps_desc_of(shapes, params) ==
    [i \in 1..Min(Len(shapes), Len(params)) |->
        FeatureMapDescription(Size(shapes[i].w, shapes[i].h), params[i])]

feature_maps_desc ==
    IF _check # NoExc THEN Raised(_check)
    ELSE IF IsNone(_output_shapes) \/ IsNone(_rf_params) THEN Raised(TypeError)
    ELSE Returned(feature_maps_desc_of(Get(_output_shapes), Get(_rf_params)))

input_shape ==
    IF _check # NoExc THEN Raised(_check)
    ELSE IF IsNone(_input_shape) THEN Raised(AttributeError)
    ELSE Returned(ImageShape(Get(_input_shape).w, Get(_input_shape).h, Get(_input_shape).c))

output_shapes ==
    IF _check # NoExc THEN Raised(_check)
    ELSE IF IsNone(_output_shapes) THEN Raised(TypeError)
    ELSE Returned([i \in 1..Len(Get(_output_shapes)) |->
                     Size(Get(_output_shapes)[i].w, Get(_output_shapes)[i].h)])

num_feature_maps ==
    IF _check # NoExc THEN Raised(_check)
    ELSE IF IsNone(_output_shapes) THEN Raised(TypeError)
    ELSE Returned(Len(Get(_output_shapes)))

Properties == {"feature_maps_desc", "input_shape", "output_shapes", "num_feature_maps"}

ReadOf(p) ==
    CASE p = "feature_maps_desc" -> feature_maps_desc
      [] p = "input_shape" -> input_shape
      [] p = "output_shapes" -> output_shapes
      [] p = "num_feature_maps" -> num_feature_maps

\* ---------------------------- _get_gradient_activation_at_map_center
GridCenter_upper(n) == n \div 2

GridCenter(n) == IF n % 2 = 0 THEN n \div 2 - 1 ELSE n \div 2

CenterPoints(shapes, center_offsets) ==
    [fm \in 1..Len(shapes) |->
        GridPoint(GridCenter(shapes[fm].w) + center_offsets[fm].x,
                  GridCenter(shapes[fm].h) + center_offsets[fm].y)]

\* One invocation of an abstract method, as the subclass sees it.
PrepareCall == [method |-> "_prepare_gradient_func", points |-> << >>, intensity |-> 0]
ProbeCall(points, intensity) ==
    [method |-> "_get_gradient_from_grid_points", points |-> points, intensity |-> intensity]

\* ------------------------------------------------------------- compute
Repeat(p, n) == [i \in 1..n |-> p]

CenterOffsets11_zero(n) == Repeat(GridPoint(0, 0), n)

CenterOffsets00(n) == Repeat(GridPoint(0, 0), n)

CenterOffsets11(n) == Repeat(GridPoint(1, 1), n)

Points00(n) == Repeat(GridPoint(0, 0), n)

\* The body of the loop of compute: offset in half units.
EstimateParams_crossed(rf_at_point00, rf_at00, rf_at11) ==
    ReceptiveFieldDescription(
        <<2 * rf_at_point00.x - rf_at00.w, 2 * rf_at_point00.y - rf_at00.h>>,
        <<rf_at11.x - rf_at00.x, rf_at11.y - rf_at00.y>>,
        Size(rf_at11.w, rf_at11.h))

EstimateParams(rf_at_point00, rf_at00, rf_at11) ==
    ReceptiveFieldDescription(
        <<2 * rf_at_point00.w - rf_at00.w, 2 * rf_at_point00.h - rf_at00.h>>,
        <<rf_at11.x - rf_at00.x, rf_at11.y - rf_at00.y>>,
        Size(rf_at00.w, rf_at00.h))

Min3(a, b, c) == Min(a, Min(b, c))

Estimated(p00, c00, c11) ==
    [i \in 1..Min3(Len(p00), Len(c00), Len(c11)) |-> EstimateParams(p00[i], c00[i], c11[i])]

NewRfParams_accumulate(old, p00, c00, c11) ==
    (IF IsNone(old) THEN << >> ELSE Get(old)) \o Estimated(p00, c00, c11)

\* self._rf_params = [] followed by the appends of the loop.
NewRfParams(old, p00, c00, c11) == << >> \o Estimated(p00, c00, c11)

NumMaps == Len(Get(_output_shapes))

\* compute, line 162: _build_gradient_func; _prepare_gradient_func returns.
ComputeBuild ==
    /\ pc = "idle"
    /\ \E shapes \in OutputShapeLists :
        /\ _built' = TRUE
        /\ _gradient_function' = Some("gradient_function")
        /\ _input_shape' = Some(InputShapeFor(shapes))
        /\ _output_shapes' = Some(shapes)
    /\ pc' = "center00"
    /\ calls' = <<PrepareCall>>
    /\ lastOp' = "compute"
    /\ op_args' = << >>
    /\ result' = Pending
    /\ UNCHANGED <<_rf_params, locals, replaced, loadvars>>

\* compute, line 162: _prepare_gradient_func raises, nothing is assigned.
ComputeBuildRaises ==
    /\ pc = "idle"
    /\ calls' = <<PrepareCall>>
    /\ lastOp' = "compute"
    /\ op_args' = << >>
    /\ result' = Raised(GradientError)
    /\ UNCHANGED <<instance, pc, locals, replaced, loadvars>>

\* A probe of compute raises: the call is left, its locals are gone.
ProbeRaises(points, intensity) ==
    /\ calls' = Append(calls, ProbeCall(points, intensity))
    /\ pc' = "idle"
    /\ rfs_at00' = None /\ rfs_at11' = None /\ rfs_at_point00' = None
    /\ result' = Raised(GradientError)
    /\ UNCHANGED <<instance, lastOp, op_args, replaced, loadvars>>

\* compute, lines 165-168.
ProbeCenter00 ==
    /\ pc = "center00"
    /\ LET points == CenterPoints(Get(_output_shapes), CenterOffsets00(NumMaps)) IN
        \/ /\ \E rects \in GradientResponses(NumMaps) : rfs_at00' = Some(rects)
           /\ calls' = Append(calls, ProbeCall(points, 1))
           /\ pc' = "center11"
           /\ UNCHANGED <<instance, rfs_at11, rfs_at_point00, lastOp, op_args, result, replaced, loadvars>>
        \/ ProbeRaises(points, 1)

\* compute, lines 171-174.
ProbeCenter11 ==
    /\ pc = "center11"
    /\ LET points == CenterPoints(Get(_output_shapes), CenterOffsets11(NumMaps)) IN
        \/ /\ \E rects \in GradientResponses(NumMaps) : rfs_at11' = Some(rects)
           /\ calls' = Append(calls, ProbeCall(points, 1))
           /\ pc' = "point00"
           /\ UNCHANGED <<instance, rfs_at00, rfs_at_point00, lastOp, op_args, result, replaced, loadvars>>
        \/ ProbeRaises(points, 1)

\* compute, lines 177-180.
ProbePoint00 ==
    /\ pc = "point00"
    /\ LET points == Points00(NumMaps) IN
        \/ /\ \E rects \in GradientResponses(NumMaps) : rfs_at_point00' = Some(rects)
           /\ calls' = Append(calls, ProbeCall(points, 1))
           /\ pc' = "write"
           /\ UNCHANGED <<instance, rfs_at00, rfs_at11, lastOp, op_args, result, replaced, loadvars>>
        \/ ProbeRaises(points, 1)

\* compute, lines 182-207: the loop, then return self.feature_maps_desc.
ComputeWrite ==
    /\ pc = "write"
    /\ _rf_params' = Some(NewRfParams(_rf_params, Get(rfs_at_point00), Get(rfs_at00), Get(rfs_at11)))
    /\ result' = Returned(feature_maps_desc_of(Get(_output_shapes), Get(_rf_params')))
    /\ replaced' = ~IsNone(_rf_params)
    /\ pc' = "idle"
    /\ rfs_at00' = None /\ rfs_at11' = None /\ rfs_at_point00' = None
    /\ UNCHANGED <<_built, _gradient_function, _input_shape, _output_shapes, calls, lastOp, op_args,
                   loadvars>>

\* Reading one of the four result properties.
ReadProperty ==
    /\ pc = "idle"
    /\ \E p \in Properties :
        /\ lastOp' = p
        /\ result' = ReadOf(p)
    /\ op_args' = << >>
    /\ calls' = << >>
    /\ UNCHANGED <<instance, pc, locals, replaced, loadvars>>

\* plot_rf_grid(fm_id), lines 298-305: no _check, plain indexing.
PlotRfGrid ==
    /\ pc = "idle"
    /\ \E fm_id \in 0..(MaxFeatureMaps - 1) :
        /\ op_args' = <<fm_id>>
        /\ result' =
            IF IsNone(_output_shapes) \/ IsNone(_rf_params) THEN Raised(TypeError)
            ELSE IF fm_id >= Len(Get(_output_shapes)) \/ fm_id >= Len(Get(_rf_params))
                 THEN Raised(IndexError)
            ELSE Returned([input_shape |-> Get(_input_shape),
                           output_shape |-> Get(_output_shapes)[fm_id + 1],
                           rf_params |-> Get(_rf_params)[fm_id + 1]])
    /\ lastOp' = "plot_rf_grid"
    /\ calls' = << >>
    /\ UNCHANGED <<instance, pc, locals, replaced, loadvars>>

\* _get_gradient_activation_at_map_center called on its own, lines 119-142.
GetGradientActivationAtMapCenter ==
    /\ pc = "idle"
    /\ lastOp' = "_get_gradient_activation_at_map_center"
    /\ \/ /\ num_feature_maps.exc # NoExc
          /\ result' = Raised(num_feature_maps.exc)
          /\ op_args' = << >>
          /\ calls' = << >>
       \/ /\ num_feature_maps.exc = NoExc
          /\ \E center_offsets \in CenterOffsetLists(NumMaps) :
                /\ op_args' = center_offsets
                /\ calls' = <<ProbeCall(CenterPoints(Get(_output_shapes), center_offsets), 1)>>
          /\ \/ \E rects \in GradientResponses(NumMaps) : result' = Returned(rects)
             \/ result' = Raised(GradientError)
    /\ UNCHANGED <<instance, pc, locals, replaced, loadvars>>

RfInit ==
    /\ _built = FALSE
    /\ _gradient_function = None
    /\ _input_shape = None
    /\ _output_shapes = None
    /\ _rf_params = None
    /\ pc = "idle"
    /\ rfs_at00 = None /\ rfs_at11 = None /\ rfs_at_point00 = None
    /\ calls = << >>
    /\ lastOp = "__init__"
    /\ op_args = << >>
    /\ result = Pending
    /\ replaced = FALSE

LoadIdle ==
    /\ args = << >>
    /\ checkpoint = << >>
    /\ net_weights = << >>
    /\ load_pc = "none"
    /\ load_outcome = "none"
    /\ load_called = FALSE
    /\ compared = FALSE

Init == RfInit /\ LoadIdle

Next ==
    \/ ComputeBuild
    \/ ComputeBuildRaises
    \/ ProbeCenter00
    \/ ProbeCenter11
    \/ ProbePoint00
    \/ ComputeWrite
    \/ ReadProperty
    \/ PlotRfGrid

Spec == Init /\ [][Next]_vars

\* _get_gradient_activation_at_map_center on its own: the instance as
\* constructed, or as _build_gradient_func leaves it for any list of grids.
CenterInit ==
    /\ \/ RfInit
       \/ /\ \E shapes \in OutputShapeLists :
                /\ _input_shape = Some(InputShapeFor(shapes))
                /\ _output_shapes = Some(shapes)
          /\ _built = TRUE
          /\ _gradient_function = Some("gradient_function")
          /\ _rf_params = None
          /\ pc = "idle"
          /\ rfs_at00 = None /\ rfs_at11 = None /\ rfs_at_point00 = None
          /\ calls = <<PrepareCall>>
          /\ lastOp = "_build_gradient_func"
          /\ op_args = << >>
          /\ result = Pending
          /\ replaced = FALSE
    /\ LoadIdle

SpecCenter == CenterInit /\ [][GetGradientActivationAtMapCenter]_vars

\* =================================================== load_model_state
Absent == "<absent>"

\* The keys an args object may hold here: two compared keys the code itself
\* reads (device, net), one ignored key, one key with an old-model default,
\* and one further compared key ("other") that stands for any model option.
ArgKeys == {"device", "net", "seed", "num_recurrences", "other"}

ValuesOf(k) ==
    CASE k = "device" -> {"cpu", "cuda"}
      [] k = "net" -> {"segtran", "unet"}
      [] k = "seed" -> {"1", "2"}
      [] k = "num_recurrences" -> {"1", "2"}
      [] k = "other" -> {"a", "b"}

ignored_keys ==
    {"maxiter", "checkpoint_path", "model_input_size", "t_total", "num_workers",
     "lr_warmup_ratio", "lr_warmup_steps", "local_rank", "distributed", "world_size",
     "seed", "debug", "test_ds_name", "batch_size", "dropout_prob",
     "orig_patch_size", "input_patch_size", "D_pool_K", "binarize",
     "checkpoint_dir", "iters", "out_origsize", "out_softscores", "verbose_output",
     "gpu", "test_interp", "do_remove_frag", "reload_mask", "saveiter",
     "job_name", "ds_names", "train_ds_names", "dice_warmup_steps", "opt", "lr", "decay",
     "grad_clip", "localization_prob", "tune_bn_only", "MAX_DICE_W", "deterministic",
     "lr_schedule", "out_fpn_do_dropout", "randscale", "do_affine", "focus_class",
     "bce_weight", "D_scale", "orig_input_size", "input_scale",
     "mean", "std", "mask_thres", "use_pretrained", "only_first_linear_in_squeeze",
     "perturb_posw_range"}

old_default_keys ==
    [k \in {"out_fpn_upsampleD_scheme", "num_recurrences", "qk_have_bias"} |->
        CASE k = "out_fpn_upsampleD_scheme" -> "interpolate"
          [] k = "num_recurrences" -> "1"
          [] k = "qk_have_bias" -> "True"]

\* A Python dict with its insertion order: a sequence of <<key, value>>.
DictKeys(d) == { d[i][1] : i \in 1..Len(d) }
DictSet(d, k, v) ==
    IF k \in DictKeys(d)
    THEN [i \in 1..Len(d) |-> IF d[i][1] = k THEN <<k, v>> ELSE d[i]]
    ELSE Append(d, <<k, v>>)

\* The checkpoint args a file may carry: up to MaxCpArgs distinct keys.
RECURSIVE Dicts(_)
Dicts(n) ==
    IF n = 0 THEN { << >> }
    ELSE LET shorter == Dicts(n - 1) IN
         shorter \cup
         { Append(d, <<k, v>>) :
             d \in { e \in shorter : Len(e) = n - 1 },
             k \in ArgKeys, v \in {"cpu", "cuda", "segtran", "unet", "1", "2", "a", "b"} }

CheckpointArgs ==
    { d \in Dicts(MaxCpArgs) :
        /\ Cardinality(DictKeys(d)) = Len(d)
        /\ \A i \in 1..Len(d) : d[i][2] \in ValuesOf(d[i][1]) }

\* The runtime args: device and net are read unconditionally (lines 24, 54).
RuntimeArgs ==
    { a \in [ArgKeys -> {Absent, "cpu", "cuda", "segtran", "unet", "1", "2", "a", "b"}] :
        /\ a["device"] \in ValuesOf("device")
        /\ a["net"] \in ValuesOf("net")
        /\ a["seed"] = "1"
        /\ a["num_recurrences"] \in ValuesOf("num_recurrences") \cup {Absent}
        /\ a["other"] \in ValuesOf("other") \cup {Absent} }

\* The network's parameters, and the tensors a checkpoint may hold.
NetParams == {"conv.weight", "fc.weight"}
InitialWeights == [p \in NetParams |-> "random"]
CheckpointWeights ==
    { [p \in names |-> "trained"] :
        names \in { {"conv.weight"}, NetParams, NetParams \cup {"extra.weight"} } }

Checkpoints ==
    { [has_model |-> m, has_args |-> TRUE, has_iter |-> it, args |-> d, weights |-> w] :
        m \in BOOLEAN, it \in BOOLEAN, d \in CheckpointArgs, w \in CheckpointWeights }
    \cup
    { [has_model |-> m, has_args |-> FALSE, has_iter |-> it, args |-> << >>, weights |-> w] :
        m \in BOOLEAN, it \in BOOLEAN, w \in CheckpointWeights }

\* Line 25: state_dict['args']['device'] = args.device.
WithDevice_kept(cp_args, device) == cp_args

WithDevice(cp_args, device) == DictSet(cp_args, "device", device)

\* Lines 52-57: args2, the runtime args with the old-model defaults filled in.
Args2(a) ==
    [k \in ArgKeys |->
        IF a[k] = Absent /\ k \in DOMAIN old_default_keys THEN old_default_keys[k] ELSE a[k]]

\* Line 60, for a key args2 holds.
Inconsistent_inverted(k, mine, theirs) == (k \in ignored_keys) /\ (mine # theirs)

Inconsistent(k, mine, theirs) == (k \notin ignored_keys) /\ (mine # theirs)

\* Lines 59-63: the loop over cp_args from its i-th entry on.
RECURSIVE CompareArgs(_, _, _)
CompareArgs(cp_args, args2, i) ==
    IF i > Len(cp_args) THEN "consistent"
    ELSE LET k == cp_args[i][1]
             v == cp_args[i][2] IN
         IF k \notin ignored_keys /\ args2[k] = Absent THEN "KeyError"
         ELSE IF Inconsistent(k, args2[k], v) THEN "exit"
         ELSE CompareArgs(cp_args, args2, i + 1)

\* The keys of model_state_dict (lines 27-34): the 'model' entry, or the
\* whole file with its 'args' and 'iter_num' entries.
ModelStateKeys(cp) ==
    IF cp.has_model THEN DOMAIN cp.weights
    ELSE DOMAIN cp.weights \cup {"args"} \cup (IF cp.has_iter THEN {"iter_num"} ELSE {})

\* Lines 65-66: params.update(model_state_dict); net.load_state_dict(params)
\* copies every parameter of the network and then refuses unexpected keys.
LoadedWeights(weights, cp) ==
    [p \in NetParams |-> IF p \in DOMAIN cp.weights THEN cp.weights[p] ELSE weights[p]]

\* load_model_state, lines 22-67: [outcome, called, compared, weights].
LoadResult(weights, a, cp) ==
    LET stopped(e, c) == [outcome |-> e, called |-> FALSE, compared |-> c, weights |-> weights]
        \* line 54: cp_args is not None exactly when the file has a 'model' entry
        segtran == a["net"] = "segtran" /\ cp.has_model
        verdict == IF segtran
                   THEN CompareArgs(WithDevice(cp.args, a["device"]), Args2(a), 1)
                   ELSE "consistent"
    IN  IF ~cp.has_args THEN stopped("KeyError", FALSE)
        ELSE IF cp.has_model /\ ~cp.has_iter THEN stopped("KeyError", FALSE)
        ELSE IF verdict # "consistent" THEN stopped(verdict, TRUE)
        ELSE [outcome |-> IF ModelStateKeys(cp) \subseteq NetParams
                          THEN "returned" ELSE "RuntimeError",
              called |-> TRUE,
              compared |-> segtran,
              weights |-> LoadedWeights(weights, cp)]

LoadModelState ==
    /\ load_pc = "start"
    /\ LET r == LoadResult(net_weights, args, checkpoint) IN
        /\ load_outcome' = r.outcome
        /\ load_called' = r.called
        /\ compared' = r.compared
        /\ net_weights' = r.weights
    /\ load_pc' = "done"
    /\ UNCHANGED <<args, checkpoint, rfvars>>

LoadInit ==
    /\ RfInit
    /\ args \in RuntimeArgs
    /\ checkpoint \in Checkpoints
    /\ net_weights = InitialWeights
    /\ load_pc = "start"
    /\ load_outcome = "none"
    /\ load_called = FALSE
    /\ compared = FALSE

SpecLoad == LoadInit /\ [][LoadModelState]_vars

\* ============================================================== claims

\* The step in which compute writes _rf_params and returns.
WriteStep == pc = "write" /\ pc' = "idle"

\* C1: on an instance on which compute has not run (_built is false),
\* reading feature_maps_desc, input_shape, output_shapes or num_feature_maps
\* raises 'Receptive field not computed', returns no value and leaves the
\* instance unchanged.
C1_GuardRaises ==
    [][(lastOp' \in Properties /\ ~_built) =>
          /\ result'.exc = NotComputed
          /\ IsNone(result'.value)
          /\ instance' = instance]_vars

C1_Witness ==
    /\ lastOp = "feature_maps_desc"
    /\ ~_built
    /\ result.exc = NotComputed

\* C3: for every feature map i, the description compute writes comes from the
\* three probe rectangles of that feature map: stride = (x, y) at centre+(1,1)
\* minus (x, y) at the centre, size = (w, h) at the centre, offset = (w, h)
\* at grid point (0,0) minus half of (w, h) at the centre (here doubled).
C3_ParamsFromProbes ==
    [][WriteStep =>
          /\ Len(Get(_rf_params')) = NumMaps
          /\ \A i \in 1..NumMaps :
                LET p == Get(rfs_at_point00)[i]
                    c == Get(rfs_at00)[i]
                    d == Get(rfs_at11)[i]
                    rf == Get(_rf_params')[i]
                IN  /\ rf.stride = <<d.x - c.x, d.y - c.y>>
                    /\ rf.size = Size(c.w, c.h)
                    /\ rf.offset2 = <<2 * p.w - c.w, 2 * p.h - c.h>>]_vars

C3_Witness ==
    /\ lastOp = "compute" /\ pc = "idle" /\ result.exc = NoExc
    /\ ~IsNone(result.value)
    /\ Len(Get(_rf_params)) = 2
    /\ Get(_rf_params)[2].stride # <<0, 0>>
    /\ Get(_rf_params)[2].offset2 # <<Get(_rf_params)[2].size.w, Get(_rf_params)[2].size.h>>

\* C4: for a feature map of width w >= 1 and height h >= 1 and a centre
\* offset (ox, oy), _get_gradient_activation_at_map_center probes the grid
\* point ((w-1) div 2 + ox, (h-1) div 2 + oy): the exact middle cell of an odd
\* dimension, the lower of the two middle cells of an even one; with offset
\* (0,0) the point lies inside the grid 0..w-1 x 0..h-1.
C4_CenterPoint ==
    (lastOp = "_get_gradient_activation_at_map_center" /\ calls # << >>) =>
        /\ Len(calls) = 1
        /\ Len(calls[1].points) = NumMaps
        /\ \A fm \in 1..NumMaps :
            LET w == Get(_output_shapes)[fm].w
                h == Get(_output_shapes)[fm].h
                o == op_args[fm]
                pt == calls[1].points[fm]
            IN  /\ pt = GridPoint((w - 1) \div 2 + o.x, (h - 1) \div 2 + o.y)
                /\ (w % 2 = 1) => 2 * (pt.x - o.x) + 1 = w
                /\ (w % 2 = 0) => 2 * (pt.x - o.x) + 2 = w
                /\ (h % 2 = 1) => 2 * (pt.y - o.y) + 1 = h
                /\ (h % 2 = 0) => 2 * (pt.y - o.y) + 2 = h
                /\ (o = GridPoint(0, 0)) => (pt.x \in 0..(w - 1) /\ pt.y \in 0..(h - 1))

C4_Witness ==
    /\ lastOp = "_get_gradient_activation_at_map_center"
    /\ calls # << >>
    /\ NumMaps = 2
    /\ Get(_output_shapes)[1].w % 2 = 0
    /\ Get(_output_shapes)[1].h % 2 = 1
    /\ op_args[1] = GridPoint(0, 0)
    /\ op_args[2] # GridPoint(0, 0)

\* C5: after every successful compute, repeated ones included, the returned
\* list and feature_maps_desc hold exactly one FeatureMapDescription per
\* feature map, the i-th pairing the i-th output shape with the i-th
\* receptive field estimated in this call; earlier results are replaced.
C5_OneDescriptionPerMap ==
    [][WriteStep =>
          LET expected ==
                [i \in 1..NumMaps |->
                    FeatureMapDescription(
                        Size(Get(_output_shapes)[i].w, Get(_output_shapes)[i].h),
                        EstimateParams(Get(rfs_at_point00)[i], Get(rfs_at00)[i],
                                       Get(rfs_at11)[i]))]
          IN  /\ result' = Returned(expected)
              /\ feature_maps_desc' = Returned(expected)]_vars

C5_Witness ==
    /\ lastOp = "compute" /\ pc = "idle" /\ result.exc = NoExc
    /\ ~IsNone(result.value)
    /\ replaced
    /\ Len(Get(result.value)) = 2

\* The abstract-method invocations of a complete compute over these grids.
ExpectedCalls(shapes) ==
    <<PrepareCall,
      ProbeCall([i \in 1..Len(shapes) |->
                    GridPoint((shapes[i].w - 1) \div 2, (shapes[i].h - 1) \div 2)], 1),
      ProbeCall([i \in 1..Len(shapes) |->
                    GridPoint((shapes[i].w - 1) \div 2 + 1, (shapes[i].h - 1) \div 2 + 1)], 1),
      ProbeCall([i \in 1..Len(shapes) |-> GridPoint(0, 0)], 1)>>

IsPrefix(s, t) == Len(s) <= Len(t) /\ s = SubSeq(t, 1, Len(s))

\* C6: every compute first builds the gradient function and then issues
\* exactly three probes, each over all feature maps at once with unit
\* intensity, in the order centre+(0,0), centre+(1,1), grid point (0,0);
\* _rf_params is written only after all three have returned.
C6_ProbeOrder ==
    [][/\ (lastOp' = "compute") =>
            /\ calls' # << >> /\ calls'[1] = PrepareCall
            /\ (Len(calls') > 1) =>
                  (_built' /\ IsPrefix(calls', ExpectedCalls(Get(_output_shapes'))))
       /\ (_rf_params' # _rf_params) => WriteStep
       /\ WriteStep =>
            /\ calls = ExpectedCalls(Get(_output_shapes))
            /\ calls' = calls
            /\ result'.exc = NoExc]_vars

C6_Witness ==
    /\ lastOp = "compute" /\ pc = "idle" /\ result.exc = NoExc
    /\ ~IsNone(result.value)
    /\ Len(calls) = 4
    /\ NumMaps = 2

\* C7: whenever the guard passes (_built is true) outside a running compute,
\* _rf_params holds exactly one entry per entry of _output_shapes.
C7_ParamsMatchShapes ==
    (pc = "idle" /\ _built) =>
        /\ ~IsNone(_rf_params)
        /\ Len(Get(_rf_params)) = Len(Get(_output_shapes))

\* The checkpoint carries its own args: load_model_state takes cp_args from
\* it, which it does for a file with a 'model' entry and an 'args' entry.
CarriesArgs == checkpoint.has_model /\ checkpoint.has_args

\* Some compared checkpoint key (not ignored, not excluded) whose value is
\* not the value args2 holds for it.
Differs(excluded) ==
    \E i \in 1..Len(checkpoint.args) :
        /\ checkpoint.args[i][1] \notin ignored_keys \cup excluded
        /\ checkpoint.args[i][2] # Args2(args)[checkpoint.args[i][1]]

\* Some compared checkpoint key that the runtime args do not hold at all.
Lacks ==
    \E i \in 1..Len(checkpoint.args) :
        /\ checkpoint.args[i][1] \notin ignored_keys
        /\ Args2(args)[checkpoint.args[i][1]] = Absent

\* The call ended the process before returning: by exit(0), or by a KeyError
\* that nothing in load_model or the script catches.
ProcessEnded == load_outcome \in {"exit", "KeyError"}

\* C2 (as stated): with args.net = 'segtran' and a checkpoint that carries
\* args, a checkpoint key outside ignored_keys whose value differs from the
\* runtime args (defaults filled in) makes the process exit before
\* load_state_dict is called; the weights stay as they were.
C2_ExitOnMismatch ==
    (/\ load_pc = "done"
     /\ args["net"] = "segtran"
     /\ CarriesArgs
     /\ Differs({})) =>
        /\ ProcessEnded
        /\ ~load_called
        /\ net_weights = InitialWeights

\* C2 (amended): with args.net = 'segtran' and a checkpoint that carries
\* args, a checkpoint key outside ignored_keys and other than 'device' whose
\* value differs from the runtime args (defaults filled in) makes the process
\* end before load_state_dict is called, the weights unchanged; it ends by
\* exit(0) unless 'iter_num' is missing from the checkpoint or a compared key
\* is missing from the runtime args, where a KeyError may end it first.
C2_StopsBeforeLoad ==
    (/\ load_pc = "done"
     /\ args["net"] = "segtran"
     /\ CarriesArgs
     /\ Differs({"device"})) =>
        /\ ProcessEnded
        /\ (checkpoint.has_iter /\ ~Lacks) => load_outcome = "exit"
        /\ ~load_called
        /\ net_weights = InitialWeights

C2_Witness ==
    /\ load_pc = "done"
    /\ args["net"] = "segtran"
    /\ CarriesArgs
    /\ Differs({"device"})
    /\ load_outcome = "exit"
    /\ DOMAIN checkpoint.weights = NetParams

\* C8: a checkpoint without a 'model' entry is loaded as a bare state dict:
\* no configuration comparison, load_state_dict called, no error.
C8_BareCheckpointLoads ==
    (load_pc = "done" /\ ~checkpoint.has_model) =>
        /\ ~compared
        /\ load_called
        /\ load_outcome = "returned"

\* C9: differences between runtime and checkpoint args that are confined to
\* ignored keys and to 'device' never abort the load (no exit, no KeyError of
\* the comparison); the comparison runs only when args.net = 'segtran' and
\* the checkpoint carries args.
C9_IgnoredKeysNeverAbort ==
    (load_pc = "done") =>
        /\ (checkpoint.has_args /\ ~Differs({"device"})) =>
              /\ load_outcome # "exit"
              /\ (load_outcome = "KeyError") => (checkpoint.has_model /\ ~checkpoint.has_iter)
        /\ compared => (args["net"] = "segtran" /\ CarriesArgs)

C9_Witness ==
    /\ load_pc = "done"
    /\ compared
    /\ ~Differs({"device"})
    /\ \E i \in 1..Len(checkpoint.args) :
          checkpoint.args[i][1] = "device" /\ checkpoint.args[i][2] # args["device"]
    /\ \E i \in 1..Len(checkpoint.args) :
          checkpoint.args[i][1] = "seed" /\ checkpoint.args[i][2] # args["seed"]
    /\ load_outcome = "returned"

====
